---- MODULE Spec2Model ----
(***************************************************************************)
(* Password manager of src/password/index.js: the CryptoManager wrapper    *)
(* around Web Crypto and the PasswordManager session / vault logic.        *)
(*                                                                         *)
(* Encodings.  JavaScript strings are TLA+ strings.  null is the string    *)
(* Null for this.masterPassword and the number NoTimer for                 *)
(* this.sessionTimeout (timer handles are integers greater than zero, and  *)
(* the code only tests the field for truthiness).  undefined is the string *)
(* Undefined.  localStorage is a function from the keys that are present   *)
(* to their items, so getItem(k) === null is  k \notin DOMAIN localStorage.*)
(* The cryptographic primitives are symbolic and ideal: a digest or a      *)
(* derived key names its inputs, and AES-GCM opens only under the same key *)
(* and nonce.                                                              *)
(***************************************************************************)
EXTENDS Integers, Sequences, FiniteSets, TLC

VARIABLES
    localStorage,    \* window.localStorage: key -> item
    masterPassword,  \* this.masterPassword
    passwords,       \* this.passwords
    categories,      \* this.categories
    sessionTimeout,  \* this.sessionTimeout
    isLocked,        \* this.isLocked
    screen,          \* which of #setup-screen, #login-screen, #main-app is shown
    timers,          \* the browser's pending setTimeout callbacks
    listeners,       \* resetTimeout closures registered on document
    now,             \* Date.now(), in milliseconds
    entropy,         \* the values window.crypto.getRandomValues can return
    thrown,          \* message of the Error the last call threw, "" if none
    suspended,       \* async calls of the password manager suspended at an await
    calls,           \* the CryptoManager.encrypt calls made directly, with what they returned
    storageData,     \* Storage.data of src/3d/js/storage.js
    currentSceneIndex,  \* MindspaceNavigator.currentSceneIndex
    isImmersiveMode, \* MindspaceNavigator.isImmersiveMode
    animationFrameId,   \* SceneManager.animationFrameId
    frames           \* the browser's pending requestAnimationFrame callbacks

(* the fields of the Mindspace Navigator page *)
mindspace == <<storageData, currentSceneIndex, isImmersiveMode, animationFrameId, frames>>

vars == <<localStorage, masterPassword, passwords, categories, sessionTimeout,
          isLocked, screen, timers, listeners, now, entropy, thrown, suspended,
          calls, mindspace>>

----------------------------------------------------------------------------
(* Bounds of the model *)

MaxRecords == 2
MaxTicks == 2
MaxClock == 1
MaxListeners == 2

(* Program constants *)

NoTimer == 0
MinMasterLen == 8
SESSION_MS == 900000

Null == "null"
Undefined == "undefined"

WeakPasswordMsg == "Master password must be at least 8 characters"
IncorrectMsg == "Incorrect master password"
DecryptionMsg == "Decryption failed - incorrect password"

(* src/3d: null for SceneManager.animationFrameId is the number NoFrame
   (requestAnimationFrame handles are integers greater than zero) *)
NoFrame == 0
STORAGE_KEY == "mindspace-navigator"

sceneConfigs ==
    <<"office-kitchen", "japanese-garden", "laboratory", "factory-belt",
      "carpenter-shop", "old-town">>

(* the default data structure of Storage.load; visitCount is an object, here
   a function from the scene ids that were visited *)
DefaultData ==
    [favorites |-> <<>>,
     lastVisited |-> Null,
     preferences |-> [autoRotate |-> FALSE, showHints |-> TRUE],
     visitCount |-> << >>]

DefaultCategories ==
    <<"Personal", "Work", "Banking", "Social Media", "Shopping", "Other">>

Fields == {"id", "name", "website", "username", "password", "category",
           "notes", "createdDate", "lastModified"}

(* Inputs the callers are given in the model *)

SetupInputs == {"CorrectHorse1", "short"}
LoginInputs == {"CorrectHorse1", "WrongHorse1"}
AddCategoryInputs == {"Games"}
DeleteCategoryInputs == {"Other", "Work"}
PasswordDataInputs ==
    { [name |-> "Example", password |-> "p@ss"],
      [name |-> "Bank", website |-> "mybank.com", username |-> "me",
       password |-> "s3cret", category |-> "Work", notes |-> "n"] }
UpdateInputs ==
    { [password |-> "n3w", category |-> "Games"] }
(* updates as any caller of updatePassword can pass them *)
AnyUpdateInputs ==
    UpdateInputs \cup { [id |-> "9", createdDate |-> "T9"] }

(* records, queries and category filters for searchPasswords *)
SearchDataInputs ==
    PasswordDataInputs \cup
        { [name |-> "Savings", website |-> "MyBank.com", username |-> "Ann",
           password |-> "x"] }
QueryInputs == {"", "bank", "EXAMPLE", "ann", "work", "xyz"}
CategoryInputs == {Null, "", "All", "Work", "Other", "Games"}

----------------------------------------------------------------------------
(* Sequence helpers: Array.prototype.filter / includes *)

RECURSIVE SelectSeqBy(_, _)
SelectSeqBy(s, keep) ==
    IF s = <<>> THEN <<>>
    ELSE IF Head(s) \in keep
         THEN <<Head(s)>> \o SelectSeqBy(Tail(s), keep)
         ELSE SelectSeqBy(Tail(s), keep)

Range(s) == { s[i] : i \in DOMAIN s }

(* includes that finds nothing *)
includesNever(s, x) == FALSE

includes(s, x) == x \in Range(s)

(* obj.key, undefined when the property is absent *)
Get(obj, key) == IF key \in DOMAIN obj THEN obj[key] ELSE Undefined

(* a || b on strings: undefined and '' are falsy *)
OrElse(a, b) == IF a = Undefined \/ a = "" THEN b ELSE a

----------------------------------------------------------------------------
(* CryptoManager *)

(* the values a getRandomValues call can return in the model *)
RandomInputs == {"r1"}
TwoRandomInputs == {"r1", "r2"}

getRandomValues == entropy

(* a key derivation that leaves the salt out *)
deriveKeyNoSalt(password, salt) == [kdf |-> "PBKDF2", password |-> password, salt |-> ""]

deriveKey(password, salt) == [kdf |-> "PBKDF2", password |-> password, salt |-> salt]

hashPassword(password) == [digest |-> "SHA-256", of |-> password]

(* JSON.stringify of a password object: properties whose value is undefined
   are left out *)
stringifyObject(p) == { <<k, p[k]>> : k \in { f \in DOMAIN p : p[f] # Undefined } }

JSONstringify(data) ==
    [passwords |-> [i \in DOMAIN data.passwords |-> stringifyObject(data.passwords[i])],
     categories |-> data.categories]

parseObject(text) ==
    [f \in Fields |->
        IF \E kv \in text : kv[1] = f
        THEN (CHOOSE kv \in text : kv[1] = f)[2]
        ELSE Undefined]

JSONparse(text) ==
    [passwords |-> [i \in DOMAIN text.passwords |-> parseObject(text.passwords[i])],
     categories |-> text.categories]

(* salt || iv || AES-GCM(key, iv, plaintext), base64 *)
encrypt(data, password, salt, iv) ==
    [salt |-> salt, iv |-> iv,
     encrypted |-> [key |-> deriveKey(password, salt), iv |-> iv,
                    plaintext |-> JSONstringify(data)]]

(* decrypt that parses the records and loses the categories *)
decryptNoCategories(encryptedData, password) ==
    LET key == deriveKey(password, encryptedData.salt)
    IN IF encryptedData.encrypted.key = key
          /\ encryptedData.encrypted.iv = encryptedData.iv
       THEN [ok |-> TRUE,
             data |-> [JSONparse(encryptedData.encrypted.plaintext)
                          EXCEPT !.categories = <<>>]]
       ELSE [ok |-> FALSE, data |-> DecryptionMsg]

(* decrypt whose cipher does not authenticate the key *)
decryptAnyKey(encryptedData, password) ==
    IF encryptedData.encrypted.iv = encryptedData.iv
    THEN [ok |-> TRUE, data |-> JSONparse(encryptedData.encrypted.plaintext)]
    ELSE [ok |-> FALSE, data |-> DecryptionMsg]

decrypt(encryptedData, password) ==
    LET salt == encryptedData.salt
        iv == encryptedData.iv
        encrypted == encryptedData.encrypted
        key == deriveKey(password, salt)
    IN IF encrypted.key = key /\ encrypted.iv = iv
       THEN [ok |-> TRUE, data |-> JSONparse(encrypted.plaintext)]
       ELSE [ok |-> FALSE, data |-> DecryptionMsg]

----------------------------------------------------------------------------
(* localStorage *)

setItem(store, key, item) ==
    [k \in DOMAIN store \cup {key} |-> IF k = key THEN item ELSE store[k]]

hasItem(store, key) == key \in DOMAIN store

----------------------------------------------------------------------------
(* Session timeout.  ts = [sessionTimeout, timers] *)

(* setTimeout returns a handle that names no pending timeout; the least such
   integer greater than zero stands for it *)
FreshTimerId(pending) ==
    CHOOSE id \in 1..(Cardinality(pending) + 1) :
        \A t \in pending : t.id # id

clearSessionTimeout(ts) ==
    IF ts.sessionTimeout # NoTimer
    THEN [sessionTimeout |-> NoTimer,
          timers |-> { t \in ts.timers : t.id # ts.sessionTimeout }]
    ELSE ts

(* resetTimeout without its clearSessionTimeout call: timeouts accumulate *)
resetTimeoutAccumulate(ts, t) ==
    LET id == FreshTimerId(ts.timers)
    IN [sessionTimeout |-> id,
        timers |-> ts.timers \cup {[id |-> id, due |-> t + SESSION_MS]}]

resetTimeout(ts, t) ==
    LET c == clearSessionTimeout(ts)
        id == FreshTimerId(c.timers)
    IN [sessionTimeout |-> id,
        timers |-> c.timers \cup {[id |-> id, due |-> t + SESSION_MS]}]

(* startSessionTimeout that clears and schedules nothing *)
startSessionTimeoutNone(ts, t) == clearSessionTimeout(ts)

startSessionTimeout(ts, t) == resetTimeout(clearSessionTimeout(ts), t)

RECURSIVE RunListeners(_, _, _)
RunListeners(n, ts, t) ==
    IF n = 0 THEN ts ELSE RunListeners(n - 1, resetTimeout(ts, t), t)

----------------------------------------------------------------------------
(* Persistence *)

saveData(store, pws, cats, mp, salt, iv) ==
    setItem(store, "encryptedData",
            encrypt([passwords |-> pws, categories |-> cats], mp, salt, iv))

(* loadData that decrypts and drops the result *)
loadDataDropped(store, pws, cats, mp) ==
    [ok |-> TRUE, passwords |-> pws, categories |-> cats]

(* the vault loadData leaves in memory; ok = FALSE when decrypt throws *)
loadData(store, pws, cats, mp) ==
    IF hasItem(store, "encryptedData")
    THEN LET r == decrypt(store["encryptedData"], mp)
         IN IF r.ok
            THEN [ok |-> TRUE,
                  passwords |-> IF "passwords" \in DOMAIN r.data
                                THEN r.data.passwords ELSE <<>>,
                  categories |-> IF "categories" \in DOMAIN r.data
                                 THEN r.data.categories ELSE cats]
            ELSE [ok |-> FALSE, passwords |-> pws, categories |-> cats]
    ELSE [ok |-> TRUE, passwords |-> pws, categories |-> cats]

----------------------------------------------------------------------------
(* the fields after the constructor and init(), nothing stored *)
Constructed ==
    /\ localStorage = << >>
    /\ masterPassword = Null
    /\ passwords = <<>>
    /\ categories = DefaultCategories
    /\ sessionTimeout = NoTimer
    /\ isLocked = TRUE
    /\ screen = "setup"
    /\ timers = {}
    /\ listeners = 0
    /\ now = 0
    /\ thrown = ""
    /\ suspended = {}
    /\ calls = <<>>
    /\ storageData = DefaultData
    /\ currentSceneIndex = 0
    /\ isImmersiveMode = FALSE
    /\ animationFrameId = NoFrame
    /\ frames = {}

Init == Constructed /\ entropy = RandomInputs

InitTwoRandom == Constructed /\ entropy = TwoRandomInputs

----------------------------------------------------------------------------
(* PasswordManager methods.  timerState is the pair the timeout helpers
   work on. *)

timerState == [sessionTimeout |-> sessionTimeout, timers |-> timers]

(* setupMasterPassword storing the verifier before it checks the length *)
setupStoresFirst(password) ==
    /\ screen = "setup"
    /\ Len(password) < MinMasterLen
    /\ localStorage' = setItem(localStorage, "masterPasswordHash",
                               hashPassword(password))
    /\ thrown' = WeakPasswordMsg
    /\ UNCHANGED <<masterPassword, passwords, categories, sessionTimeout,
                   isLocked, screen, timers, listeners, now, entropy, suspended, calls, mindspace>>

setupMasterPassword(password) ==
    /\ screen = "setup"
    /\ IF Len(password) < MinMasterLen
       THEN /\ thrown' = WeakPasswordMsg
            /\ UNCHANGED <<localStorage, masterPassword, passwords, categories,
                           sessionTimeout, isLocked, screen, timers, listeners, now, entropy, suspended, calls, mindspace>>
       ELSE /\ listeners < MaxListeners
            /\ \E salt \in getRandomValues, iv \in getRandomValues :
                 localStorage' =
                    saveData(setItem(localStorage, "masterPasswordHash",
                                     hashPassword(password)),
                             passwords, categories, password, salt, iv)
            /\ masterPassword' = password
            /\ isLocked' = FALSE
            /\ screen' = "main"
            /\ LET ts == startSessionTimeout(timerState, now)
               IN /\ sessionTimeout' = ts.sessionTimeout
                  /\ timers' = ts.timers
            /\ listeners' = listeners + 1
            /\ thrown' = ""
            /\ UNCHANGED <<passwords, categories, now, entropy, suspended, calls, mindspace>>

(* login assigning the passphrase and the lock flag before the hash check *)
loginAssignsFirst(password) ==
    /\ screen = "login"
    /\ localStorage["masterPasswordHash"] # hashPassword(password)
    /\ masterPassword' = password
    /\ isLocked' = FALSE
    /\ thrown' = IncorrectMsg
    /\ UNCHANGED <<localStorage, passwords, categories, sessionTimeout, screen,
                   timers, listeners, now, entropy, suspended, calls, mindspace>>

login(password) ==
    /\ screen = "login"
    /\ IF \/ ~hasItem(localStorage, "masterPasswordHash")
          \/ localStorage["masterPasswordHash"] # hashPassword(password)
       THEN /\ thrown' = IncorrectMsg
            /\ UNCHANGED <<localStorage, masterPassword, passwords, categories,
                           sessionTimeout, isLocked, screen, timers, listeners, now, entropy, suspended, calls, mindspace>>
       ELSE LET loaded == loadData(localStorage, passwords, categories, password)
            IN /\ masterPassword' = password
               /\ isLocked' = FALSE
               /\ passwords' = loaded.passwords
               /\ categories' = loaded.categories
               /\ IF loaded.ok
                  THEN /\ listeners < MaxListeners
                       /\ screen' = "main"
                       /\ LET ts == startSessionTimeout(timerState, now)
                          IN /\ sessionTimeout' = ts.sessionTimeout
                             /\ timers' = ts.timers
                       /\ listeners' = listeners + 1
                       /\ thrown' = ""
                  ELSE /\ thrown' = DecryptionMsg
                       /\ UNCHANGED <<screen, sessionTimeout, timers, listeners>>
               /\ UNCHANGED <<localStorage, now, entropy, suspended, calls, mindspace>>

(* lock() that hides the vault and keeps this.passwords *)
lockHidesOnly(pending) ==
    LET ts == clearSessionTimeout([sessionTimeout |-> sessionTimeout,
                                   timers |-> pending])
    IN /\ isLocked' = TRUE
       /\ masterPassword' = Null
       /\ sessionTimeout' = ts.sessionTimeout
       /\ timers' = ts.timers
       /\ screen' = "login"
       /\ UNCHANGED <<localStorage, passwords, categories, listeners, now, entropy, suspended, calls, mindspace, thrown>>

(* the body of lock(), run on the pending timers left *)
lockFrom(pending) ==
    LET ts == clearSessionTimeout([sessionTimeout |-> sessionTimeout,
                                   timers |-> pending])
    IN /\ isLocked' = TRUE
       /\ masterPassword' = Null
       /\ passwords' = <<>>
       /\ sessionTimeout' = ts.sessionTimeout
       /\ timers' = ts.timers
       /\ screen' = "login"
       /\ UNCHANGED <<localStorage, categories, listeners, now, entropy, suspended, calls, mindspace, thrown>>

(* the lock button, shown with the main app *)
lock ==
    /\ screen = "main"
    /\ lockFrom(timers)

(* a pending setTimeout callback comes due and runs this.lock() *)
TimeoutFires ==
    \E t \in timers :
        /\ t.due <= now
        /\ lockFrom(timers \ {t})

(* mousedown / keydown / scroll / touchstart on document: every registered
   resetTimeout closure runs *)
Activity ==
    /\ listeners > 0
    /\ LET ts == RunListeners(listeners, timerState, now)
       IN /\ sessionTimeout' = ts.sessionTimeout
          /\ timers' = ts.timers
    /\ UNCHANGED <<localStorage, masterPassword, passwords, categories, isLocked,
                   screen, listeners, now, entropy, suspended, calls, mindspace, thrown>>

(* the clock advances by d milliseconds *)
Ticks == (now \div SESSION_MS) + (now % SESSION_MS)

Tick(d) ==
    /\ now' = now + d
    /\ UNCHANGED <<entropy, suspended, calls, mindspace, localStorage, masterPassword, passwords, categories,
                   sessionTimeout, isLocked, screen, timers, listeners, thrown>>

----------------------------------------------------------------------------
(* Vault operations, reachable from the main app *)

toISOString(t) == "T" \o ToString(t)

newPassword(passwordData, t) ==
    [f \in Fields |->
        CASE f = "id" -> ToString(t)
          [] f = "name" -> Get(passwordData, "name")
          [] f = "website" -> OrElse(Get(passwordData, "website"), "")
          [] f = "username" -> OrElse(Get(passwordData, "username"), "")
          [] f = "password" -> Get(passwordData, "password")
          [] f = "category" -> OrElse(Get(passwordData, "category"), "Other")
          [] f = "notes" -> OrElse(Get(passwordData, "notes"), "")
          [] f = "createdDate" -> toISOString(t)
          [] f = "lastModified" -> toISOString(t)]

(* { ...p, ...updates, lastModified } *)
merge(p, updates, t) ==
    [f \in Fields |->
        IF f = "lastModified" THEN toISOString(t)
        ELSE IF f \in DOMAIN updates THEN updates[f]
        ELSE p[f]]

(* findIndex answering the first record when none matches *)
findIndexOrFirst(pws, id) ==
    IF \E i \in DOMAIN pws : pws[i]["id"] = id
    THEN CHOOSE i \in DOMAIN pws :
            /\ pws[i]["id"] = id
            /\ \A j \in 1..(i - 1) : pws[j]["id"] # id
    ELSE IF pws = <<>> THEN 0 ELSE 1

(* findIndex: the first index whose id matches, 0 for -1 *)
findIndex(pws, id) ==
    IF \E i \in DOMAIN pws : pws[i]["id"] = id
    THEN CHOOSE i \in DOMAIN pws :
            /\ pws[i]["id"] = id
            /\ \A j \in 1..(i - 1) : pws[j]["id"] # id
    ELSE 0

(* deleteCategory without the move to 'Other' *)
reassignNone(pws, name) == pws

reassign(pws, name) ==
    [i \in DOMAIN pws |->
        IF pws[i]["category"] = name
        THEN [pws[i] EXCEPT !["category"] = "Other"]
        ELSE pws[i]]

(* String.prototype.toLowerCase on the letters A-Z *)
LowerCaseOf ==
    ("A" :> "a") @@ ("B" :> "b") @@ ("C" :> "c") @@ ("D" :> "d") @@
    ("E" :> "e") @@ ("F" :> "f") @@ ("G" :> "g") @@ ("H" :> "h") @@
    ("I" :> "i") @@ ("J" :> "j") @@ ("K" :> "k") @@ ("L" :> "l") @@
    ("M" :> "m") @@ ("N" :> "n") @@ ("O" :> "o") @@ ("P" :> "p") @@
    ("Q" :> "q") @@ ("R" :> "r") @@ ("S" :> "s") @@ ("T" :> "t") @@
    ("U" :> "u") @@ ("V" :> "v") @@ ("W" :> "w") @@ ("X" :> "x") @@
    ("Y" :> "y") @@ ("Z" :> "z")

(* toLowerCase left out *)
toLowerCaseNone(s) == s

RECURSIVE toLowerCase(_)
toLowerCase(s) ==
    IF s = "" THEN ""
    ELSE LET c == SubSeq(s, 1, 1)
         IN (IF c \in DOMAIN LowerCaseOf THEN LowerCaseOf[c] ELSE c)
                \o toLowerCase(SubSeq(s, 2, Len(s)))

(* String.prototype.includes *)
stringIncludes(s, q) ==
    \E i \in 0..(Len(s) - Len(q)) : SubSeq(s, i + 1, i + Len(q)) = q

(* the || chain of the query filter on one record: reading toLowerCase of an
   undefined or null field throws a TypeError unless an earlier field matched *)
queryFilter(p, lowerQuery) ==
    LET test(f) == p[f] \notin {Undefined, Null}
                     /\ stringIncludes(toLowerCase(p[f]), lowerQuery)
        bad(f) == p[f] \in {Undefined, Null}
    IN IF test("name") THEN [threw |-> FALSE, keep |-> TRUE]
       ELSE IF bad("name") THEN [threw |-> TRUE, keep |-> FALSE]
       ELSE IF test("website") THEN [threw |-> FALSE, keep |-> TRUE]
       ELSE IF bad("website") THEN [threw |-> TRUE, keep |-> FALSE]
       ELSE IF test("username") THEN [threw |-> FALSE, keep |-> TRUE]
       ELSE IF bad("username") THEN [threw |-> TRUE, keep |-> FALSE]
       ELSE IF test("category") THEN [threw |-> FALSE, keep |-> TRUE]
       ELSE IF bad("category") THEN [threw |-> TRUE, keep |-> FALSE]
       ELSE [threw |-> FALSE, keep |-> FALSE]

(* searchPasswords(query, category) over the records pws; category is Null
   when the argument is absent *)
searchPasswords(pws, query, category) ==
    LET byCategory ==
            IF category \notin {Null, Undefined, ""} /\ category # "All"
            THEN SelectSeq(pws, LAMBDA p : p["category"] = category)
            ELSE pws
        lowerQuery == toLowerCase(query)
    IN IF query \notin {Null, Undefined, ""}
       THEN IF \E i \in DOMAIN byCategory : queryFilter(byCategory[i], lowerQuery).threw
            THEN [threw |-> TRUE, results |-> <<>>]
            ELSE [threw |-> FALSE,
                  results |-> SelectSeq(byCategory,
                                 LAMBDA p : queryFilter(p, lowerQuery).keep)]
       ELSE [threw |-> FALSE, results |-> byCategory]

(* ids a caller can pass: those on the password cards, the id of a record
   made at time 0 (stale once that record is deleted) and one never assigned *)
IdInputs == { passwords[i]["id"] : i \in DOMAIN passwords } \cup {"0", "404"}

persist(pws, cats) ==
    \E salt \in getRandomValues, iv \in getRandomValues :
        localStorage' = saveData(localStorage, pws, cats, masterPassword, salt, iv)

(* addPassword with push in place of unshift *)
addPasswordPush(passwordData) ==
    /\ screen = "main"
    /\ Len(passwords) < MaxRecords
    /\ passwords' = Append(passwords, newPassword(passwordData, now))
    /\ persist(passwords', categories)
    /\ thrown' = ""
    /\ UNCHANGED <<masterPassword, categories, sessionTimeout, isLocked, screen,
                   timers, listeners, now, entropy, suspended, calls, mindspace>>

addPassword(passwordData) ==
    /\ screen = "main"
    /\ Len(passwords) < MaxRecords
    /\ passwords' = <<newPassword(passwordData, now)>> \o passwords
    /\ persist(passwords', categories)
    /\ thrown' = ""
    /\ UNCHANGED <<masterPassword, categories, sessionTimeout, isLocked, screen,
                   timers, listeners, now, entropy, suspended, calls, mindspace>>

updatePassword(id, updates) ==
    /\ screen = "main"
    /\ LET index == findIndex(passwords, id)
       IN IF index # 0
          THEN /\ passwords' = [passwords EXCEPT
                                   ![index] = merge(passwords[index], updates, now)]
               /\ persist(passwords', categories)
          ELSE UNCHANGED <<passwords, localStorage>>
    /\ thrown' = ""
    /\ UNCHANGED <<masterPassword, categories, sessionTimeout, isLocked, screen,
                   timers, listeners, now, entropy, suspended, calls, mindspace>>

(* deletePassword by splice(findIndex(..), 1): index -1 takes the last record *)
deletePasswordSplice(id) ==
    /\ screen = "main"
    /\ LET index == IF findIndex(passwords, id) = 0
                    THEN Len(passwords)
                    ELSE findIndex(passwords, id)
       IN passwords' = [i \in 1..(Len(passwords) - (IF passwords = <<>> THEN 0 ELSE 1)) |->
                            IF i < index THEN passwords[i] ELSE passwords[i + 1]]
    /\ persist(passwords', categories)
    /\ thrown' = ""
    /\ UNCHANGED <<masterPassword, categories, sessionTimeout, isLocked, screen,
                   timers, listeners, now, entropy, suspended, calls, mindspace>>

deletePassword(id) ==
    /\ screen = "main"
    /\ passwords' = SelectSeqBy(passwords, { p \in Range(passwords) : p["id"] # id })
    /\ persist(passwords', categories)
    /\ thrown' = ""
    /\ UNCHANGED <<masterPassword, categories, sessionTimeout, isLocked, screen,
                   timers, listeners, now, entropy, suspended, calls, mindspace>>

addCategory(name) ==
    /\ screen = "main"
    /\ IF ~includes(categories, name)
       THEN /\ categories' = Append(categories, name)
            /\ persist(passwords, categories')
       ELSE UNCHANGED <<categories, localStorage>>
    /\ thrown' = ""
    /\ UNCHANGED <<masterPassword, passwords, sessionTimeout, isLocked, screen,
                   timers, listeners, now, entropy, suspended, calls, mindspace>>

deleteCategory(name) ==
    /\ screen = "main"
    /\ passwords' = reassign(passwords, name)
    /\ categories' = SelectSeqBy(categories, Range(categories) \ {name})
    /\ persist(passwords', categories')
    /\ thrown' = ""
    /\ UNCHANGED <<masterPassword, sessionTimeout, isLocked, screen, timers,
                   listeners, now, entropy, suspended, calls, mindspace>>

----------------------------------------------------------------------------
SessionStep ==
    \/ \E pw \in SetupInputs : setupMasterPassword(pw)
    \/ \E pw \in LoginInputs : login(pw)
    \/ lock

VaultStep ==
    \/ \E pd \in PasswordDataInputs : addPassword(pd)
    \/ \E id \in IdInputs, u \in UpdateInputs : updatePassword(id, u)
    \/ \E id \in IdInputs : deletePassword(id)
    \/ \E c \in AddCategoryInputs : addCategory(c)
    \/ \E c \in DeleteCategoryInputs : deleteCategory(c)

TimerStep ==
    \/ TimeoutFires
    \/ Activity
    \/ Ticks < MaxTicks /\ \E d \in {1, SESSION_MS} : Tick(d)

Next == SessionStep \/ VaultStep \/ TimerStep

Spec == Init /\ [][Next]_vars

(* the vault operations of one user at the keyboard, the clock running *)
NextVault ==
    \/ SessionStep
    \/ VaultStep
    \/ now < MaxClock /\ Tick(1)

SpecVault == Init /\ [][NextVault]_vars

(* the session lifecycle with its idle timer *)
NextSession ==
    \/ SessionStep
    \/ TimerStep
    \/ \E c \in AddCategoryInputs : addCategory(c)
    \/ \E pd \in PasswordDataInputs : addPassword(pd)

SpecSession == Init /\ [][NextSession]_vars

(* one unlocked session working on the records, the random source having
   two values so that a write shows *)
NextRecords ==
    \/ \E pw \in SetupInputs : setupMasterPassword(pw)
    \/ \E pd \in PasswordDataInputs : addPassword(pd)
    \/ \E id \in IdInputs, u \in UpdateInputs : updatePassword(id, u)
    \/ \E id \in IdInputs : deletePassword(id)
    \/ \E c \in AddCategoryInputs : addCategory(c)
    \/ now < MaxClock /\ Tick(1)

SpecRecords == InitTwoRandom /\ [][NextRecords]_vars

(* setupMasterPassword called when a verifier is already stored: the method
   has no check of masterPasswordHash, and a page loaded before the first
   setup still shows the setup form *)
setupMasterPasswordAgain(password) ==
    /\ hasItem(localStorage, "masterPasswordHash")
    /\ IF Len(password) < MinMasterLen
       THEN /\ thrown' = WeakPasswordMsg
            /\ UNCHANGED <<localStorage, masterPassword, passwords, categories,
                           sessionTimeout, isLocked, screen, timers, listeners, now, entropy, suspended, calls, mindspace>>
       ELSE /\ listeners < MaxListeners
            /\ \E salt \in getRandomValues, iv \in getRandomValues :
                 localStorage' =
                    saveData(setItem(localStorage, "masterPasswordHash",
                                     hashPassword(password)),
                             passwords, categories, password, salt, iv)
            /\ masterPassword' = password
            /\ isLocked' = FALSE
            /\ screen' = "main"
            /\ LET ts == startSessionTimeout(timerState, now)
               IN /\ sessionTimeout' = ts.sessionTimeout
                  /\ timers' = ts.timers
            /\ listeners' = listeners + 1
            /\ thrown' = ""
            /\ UNCHANGED <<passwords, categories, now, entropy, suspended, calls, mindspace>>

NextSetup ==
    \/ \E pw \in SetupInputs : setupMasterPassword(pw)
    \/ \E pw \in LoginInputs : login(pw)
    \/ lock
    \/ \E pd \in PasswordDataInputs : addPassword(pd)
    \/ \E c \in AddCategoryInputs : addCategory(c)
    \/ \E pw \in SetupInputs \cup LoginInputs : setupMasterPasswordAgain(pw)

SpecSetup == Init /\ [][NextSetup]_vars

(* the records searchPasswords is called on *)
NextSearch ==
    \/ \E pw \in SetupInputs : setupMasterPassword(pw)
    \/ \E pd \in SearchDataInputs : addPassword(pd)
    \/ \E id \in IdInputs, u \in UpdateInputs : updatePassword(id, u)
    \/ \E id \in IdInputs : deletePassword(id)
    \/ now < MaxClock /\ Tick(1)

SpecSearch == Init /\ [][NextSearch]_vars

(* the same session, updatePassword given any object *)
NextAnyUpdate ==
    \/ NextRecords
    \/ \E id \in IdInputs, u \in AnyUpdateInputs : updatePassword(id, u)

SpecAnyUpdate == InitTwoRandom /\ [][NextAnyUpdate]_vars

(* the idle user: calls are made, then no input event reaches the page while
   it is unlocked; the clock runs on and due timeouts run *)
IdleTick ==
    /\ \E t \in timers : now < t.due
    /\ ~isLocked \/ Ticks < MaxTicks
    /\ Tick(SESSION_MS)

NextIdle ==
    \/ \E pw \in SetupInputs : setupMasterPassword(pw)
    \/ \E pw \in LoginInputs : login(pw)
    \/ \E pd \in PasswordDataInputs : addPassword(pd)
    \/ isLocked /\ Activity
    \/ now % SESSION_MS < MaxClock /\ Tick(1)
    \/ IdleTick
    \/ TimeoutFires

(* the event loop: time passes, and a timeout that is due runs *)
SpecIdle ==
    Init /\ [][NextIdle]_vars /\ WF_vars(IdleTick) /\ WF_vars(TimeoutFires)

----------------------------------------------------------------------------
(* saveData when CryptoManager.encrypt throws.  encrypt spreads the whole
   blob into one call, String.fromCharCode(...combined), which the engine
   rejects with a RangeError once the blob is longer than its argument limit;
   sizes are not modelled, so the failure is possible at any save. *)

RangeErrorMsg == "Maximum call stack size exceeded"

(* a blob cut after salt and iv *)
PartialBlob ==
    [salt |-> "r1", iv |-> "r1",
     encrypted |-> [key |-> [kdf |-> "none", password |-> "", salt |-> ""],
                    iv |-> "",
                    plaintext |-> JSONstringify([passwords |-> <<>>,
                                                 categories |-> <<>>])]]

(* saveData writing what it has before the encryption is through *)
saveDataThrowsPartial(store, pws, cats, mp) ==
    setItem(store, "encryptedData", PartialBlob)

(* the await of encrypt rejects: setItem on the next line is not reached *)
saveDataThrows(store, pws, cats, mp) == store

addPasswordEncryptThrows(passwordData) ==
    /\ screen = "main"
    /\ Len(passwords) < MaxRecords
    /\ passwords' = <<newPassword(passwordData, now)>> \o passwords
    /\ localStorage' = saveDataThrows(localStorage, passwords', categories,
                                      masterPassword)
    /\ thrown' = RangeErrorMsg
    /\ UNCHANGED <<masterPassword, categories, sessionTimeout, isLocked, screen,
                   timers, listeners, now, entropy, suspended, calls, mindspace>>

deletePasswordEncryptThrows(id) ==
    /\ screen = "main"
    /\ passwords' = SelectSeqBy(passwords, { p \in Range(passwords) : p["id"] # id })
    /\ localStorage' = saveDataThrows(localStorage, passwords', categories,
                                      masterPassword)
    /\ thrown' = RangeErrorMsg
    /\ UNCHANGED <<masterPassword, categories, sessionTimeout, isLocked, screen,
                   timers, listeners, now, entropy, suspended, calls, mindspace>>

NextPersist ==
    \/ \E pw \in SetupInputs : setupMasterPassword(pw)
    \/ \E pd \in PasswordDataInputs : addPassword(pd)
    \/ \E pd \in PasswordDataInputs : addPasswordEncryptThrows(pd)
    \/ \E id \in IdInputs : deletePassword(id)
    \/ \E id \in IdInputs : deletePasswordEncryptThrows(id)
    \/ now < MaxClock /\ Tick(1)

SpecPersist == InitTwoRandom /\ [][NextPersist]_vars

----------------------------------------------------------------------------
(* CryptoManager called directly.  Each encrypt call draws its salt and its
   iv with two getRandomValues calls (lines 35-36); here the generator never
   returns a value twice, entropy being the values it has not returned yet. *)

MaxCalls == 2

FreshInputs == { "r" \o ToString(i) : i \in 1..(MaxCalls + MaxCalls) }

PassphraseInputs == LoginInputs

(* payloads as saveData passes them *)
PayloadInputs ==
    { [passwords |-> <<>>, categories |-> DefaultCategories] } \cup
    { [passwords |-> <<newPassword(pd, 0)>>, categories |-> DefaultCategories] :
          pd \in PasswordDataInputs }

InitFresh == Constructed /\ entropy = FreshInputs

(* encrypt with the salt and iv of the first call kept for later calls *)
encryptCallReusing(data, password) ==
    /\ Len(calls) < MaxCalls
    /\ \E salt \in entropy :
         \E iv \in entropy \ {salt} :
            LET s == IF calls = <<>> THEN salt ELSE calls[1].blob.salt
                v == IF calls = <<>> THEN iv ELSE calls[1].blob.iv
            IN /\ calls' = Append(calls, [data |-> data, password |-> password,
                                          blob |-> encrypt(data, password, s, v)])
               /\ entropy' = entropy \ {salt, iv}
    /\ UNCHANGED <<localStorage, masterPassword, passwords, categories,
                   sessionTimeout, isLocked, screen, timers, listeners, now,
                   thrown, suspended, mindspace>>

(* CryptoManager.encrypt(data, password) *)
encryptCall(data, password) ==
    /\ Len(calls) < MaxCalls
    /\ \E salt \in entropy :
         \E iv \in entropy \ {salt} :
            /\ calls' = Append(calls, [data |-> data, password |-> password,
                                       blob |-> encrypt(data, password, salt, iv)])
            /\ entropy' = entropy \ {salt, iv}
    /\ UNCHANGED <<localStorage, masterPassword, passwords, categories,
                   sessionTimeout, isLocked, screen, timers, listeners, now,
                   thrown, suspended, mindspace>>

NextCrypto ==
    \E data \in PayloadInputs, password \in PassphraseInputs :
        encryptCall(data, password)

SpecCrypto == InitFresh /\ [][NextCrypto]_vars

----------------------------------------------------------------------------
(* Storage of src/3d/js/storage.js: favourites, last visit and visit counts
   under one localStorage key *)

(* JSON.stringify(this.data): the visitCount object becomes its list of
   "key":value members *)
stringifyData(d) ==
    [favorites |-> d.favorites,
     lastVisited |-> d.lastVisited,
     preferences |-> d.preferences,
     visitCount |-> { <<k, d.visitCount[k]>> : k \in DOMAIN d.visitCount }]

(* JSON.parse of such a text *)
parseData(text) ==
    [favorites |-> text.favorites,
     lastVisited |-> text.lastVisited,
     preferences |-> text.preferences,
     visitCount |-> [k \in { kv[1] : kv \in text.visitCount } |->
                        (CHOOSE kv \in text.visitCount : kv[1] = k)[2]]]

(* Storage.load: the parsed item, the default structure when there is none *)
load(store) ==
    IF hasItem(store, STORAGE_KEY)
    THEN parseData(store[STORAGE_KEY])
    ELSE DefaultData

(* Storage.save, the setItem succeeding *)
save(store, d) == setItem(store, STORAGE_KEY, stringifyData(d))

(* indexOf, 0 for -1 *)
indexOf(s, x) ==
    IF x \in Range(s)
    THEN CHOOSE i \in DOMAIN s : s[i] = x /\ \A j \in 1..(i - 1) : s[j] # x
    ELSE 0

(* splice(index, 1) *)
splice(s, index) ==
    [i \in 1..(Len(s) - 1) |-> IF i < index THEN s[i] ELSE s[i + 1]]

passwordManager ==
    <<masterPassword, passwords, categories, sessionTimeout, isLocked, screen,
      timers, listeners, now, entropy, thrown, suspended, calls>>

(* new Storage() at page load *)
newStorage ==
    /\ storageData' = load(localStorage)
    /\ UNCHANGED <<localStorage, currentSceneIndex, isImmersiveMode,
                   animationFrameId, frames, passwordManager>>

(* addFavorite that pushes and does not save *)
addFavoriteUnsaved(sceneId) ==
    /\ IF ~includes(storageData.favorites, sceneId)
       THEN /\ storageData' = [storageData EXCEPT
                                  !.favorites = Append(@, sceneId)]
            /\ UNCHANGED localStorage
       ELSE UNCHANGED <<storageData, localStorage>>
    /\ UNCHANGED <<currentSceneIndex, isImmersiveMode, animationFrameId, frames,
                   passwordManager>>

addFavorite(sceneId) ==
    /\ IF ~includes(storageData.favorites, sceneId)
       THEN /\ storageData' = [storageData EXCEPT
                                  !.favorites = Append(@, sceneId)]
            /\ localStorage' = save(localStorage, storageData')
       ELSE UNCHANGED <<storageData, localStorage>>
    /\ UNCHANGED <<currentSceneIndex, isImmersiveMode, animationFrameId, frames,
                   passwordManager>>

removeFavorite(sceneId) ==
    /\ LET index == indexOf(storageData.favorites, sceneId)
       IN IF index > 0
          THEN /\ storageData' = [storageData EXCEPT
                                     !.favorites = splice(@, index)]
               /\ localStorage' = save(localStorage, storageData')
          ELSE UNCHANGED <<storageData, localStorage>>
    /\ UNCHANGED <<currentSceneIndex, isImmersiveMode, animationFrameId, frames,
                   passwordManager>>

isFavorite(sceneId) == includes(storageData.favorites, sceneId)

toggleFavorite(sceneId) ==
    IF isFavorite(sceneId) THEN removeFavorite(sceneId) ELSE addFavorite(sceneId)

clearFavorites ==
    /\ storageData' = [storageData EXCEPT !.favorites = <<>>]
    /\ localStorage' = save(localStorage, storageData')
    /\ UNCHANGED <<currentSceneIndex, isImmersiveMode, animationFrameId, frames,
                   passwordManager>>

(* the scene ids the cards pass *)
SceneInputs == Range(sceneConfigs)

NextFavorites ==
    \/ \E sceneId \in SceneInputs : addFavorite(sceneId)
    \/ \E sceneId \in SceneInputs : removeFavorite(sceneId)
    \/ \E sceneId \in SceneInputs : toggleFavorite(sceneId)
    \/ clearFavorites
    \/ newStorage

SpecFavorites == Init /\ [][NextFavorites]_vars

----------------------------------------------------------------------------
(* The encryptedData item changed by something other than saveData (another
   script of the origin, the developer tools, a damaged profile) *)

(* the parts of the bytes salt || iv || ciphertext *)
BlobParts == {"salt", "iv", "ciphertext"}

(* the blob with a byte of one part changed: the salt or iv becomes another
   value v; a changed ciphertext is the AES-GCM output of no key *)
changeByte(blob, part, v) ==
    CASE part = "salt" -> [blob EXCEPT !.salt = v]
      [] part = "iv" -> [blob EXCEPT !.iv = v]
      [] part = "ciphertext" ->
            [blob EXCEPT !.encrypted.key =
                [kdf |-> "none", password |-> "", salt |-> v]]


tamper ==
    /\ hasItem(localStorage, "encryptedData")
    /\ \E pw \in PassphraseInputs : decrypt(localStorage["encryptedData"], pw).ok
    /\ \E part \in BlobParts :
         localStorage' = setItem(localStorage, "encryptedData",
                                 changeByte(localStorage["encryptedData"], part, "x"))
    /\ UNCHANGED <<masterPassword, passwords, categories, sessionTimeout,
                   isLocked, screen, timers, listeners, now, entropy, thrown,
                   suspended, calls, mindspace>>

NextTamper ==
    \/ \E pw \in SetupInputs : setupMasterPassword(pw)
    \/ \E pw \in LoginInputs : login(pw)
    \/ lock
    \/ \E pd \in PasswordDataInputs : addPassword(pd)
    \/ tamper

SpecTamper == Init /\ [][NextTamper]_vars

----------------------------------------------------------------------------
(* saveData as the event loop runs it.  The call builds data from the two
   arrays this.passwords and this.categories (by reference) and enters
   encrypt, which draws salt and iv and is suspended at await deriveKey
   (line 37).  When the key is there JSON.stringify(data) reads the two arrays
   as they are then (line 42) and the call is suspended at await
   subtle.encrypt; when that is through saveData writes the item (line 179).
   push and unshift change an array in place and show in every suspended
   call that holds it; this.passwords = ...filter(...) makes a new array and
   the suspended calls keep the old one. *)

MaxSuspended == 2

FreshCallId == CHOOSE id \in 1..(Cardinality(suspended) + 1) :
                  \A s \in suspended : s.id # id

(* the suspended call made by saveData() now *)
saveDataCall(salt, iv) ==
    [id |-> FreshCallId, at |-> "deriveKey", password |-> masterPassword,
     salt |-> salt, iv |-> iv, detached |-> FALSE, passwords |-> <<>>,
     blob |-> PartialBlob]

(* this.passwords is assigned a new array: the calls that have not read
   their data yet keep the array old *)
detach(calls_, old) ==
    { IF s.at = "deriveKey" /\ ~s.detached
      THEN [s EXCEPT !.detached = TRUE, !.passwords = old]
      ELSE s : s \in calls_ }

(* addCategory, not awaited by the add-category-btn handler *)
addCategoryStart(name) ==
    /\ screen = "main"
    /\ Cardinality(suspended) < MaxSuspended
    /\ ~includes(categories, name)
    /\ categories' = Append(categories, name)
    /\ \E salt \in getRandomValues, iv \in getRandomValues :
         suspended' = suspended \cup {saveDataCall(salt, iv)}
    /\ thrown' = ""
    /\ UNCHANGED <<localStorage, masterPassword, passwords, sessionTimeout,
                   isLocked, screen, timers, listeners, now, entropy, calls,
                   mindspace>>

(* deletePassword up to the await inside saveData *)
deletePasswordStart(id) ==
    /\ screen = "main"
    /\ Cardinality(suspended) < MaxSuspended
    /\ passwords' = SelectSeqBy(passwords, { p \in Range(passwords) : p["id"] # id })
    /\ \E salt \in getRandomValues, iv \in getRandomValues :
         suspended' = detach(suspended, passwords) \cup {saveDataCall(salt, iv)}
    /\ thrown' = ""
    /\ UNCHANGED <<localStorage, masterPassword, categories, sessionTimeout,
                   isLocked, screen, timers, listeners, now, entropy, calls,
                   mindspace>>

(* deriveKey resolves for one suspended call: the data is serialised *)
keyDerived(s) ==
    /\ s.at = "deriveKey"
    /\ LET pws == IF s.detached THEN s.passwords ELSE passwords
       IN suspended' = (suspended \ {s}) \cup
             {[s EXCEPT !.at = "encrypt",
                        !.blob = encrypt([passwords |-> pws, categories |-> categories],
                                         s.password, s.salt, s.iv)]}
    /\ UNCHANGED <<localStorage, masterPassword, passwords, categories,
                   sessionTimeout, isLocked, screen, timers, listeners, now,
                   entropy, thrown, calls, mindspace>>

(* subtle.encrypt resolves for one suspended call: saveData writes the item *)
blobEncrypted(s) ==
    /\ s.at = "encrypt"
    /\ localStorage' = setItem(localStorage, "encryptedData", s.blob)
    /\ suspended' = suspended \ {s}
    /\ UNCHANGED <<masterPassword, passwords, categories, sessionTimeout,
                   isLocked, screen, timers, listeners, now, entropy, thrown,
                   calls, mindspace>>

OverlapCategoryInputs == {"Games", "Travel"}

NextOverlap ==
    \/ \E pw \in SetupInputs : setupMasterPassword(pw)
    \/ \E pd \in PasswordDataInputs : suspended = {} /\ addPassword(pd)
    \/ \E c \in OverlapCategoryInputs : addCategoryStart(c)
    \/ \E id \in IdInputs : deletePasswordStart(id)
    \/ \E s \in suspended : keyDerived(s)
    \/ \E s \in suspended : blobEncrypted(s)

SpecOverlap == Init /\ [][NextOverlap]_vars

----------------------------------------------------------------------------
(* login as the event loop runs it.  The call is suspended at await
   hashPassword (line 129); resumed, it compares the hashes, assigns
   masterPassword and isLocked and enters loadData, which reads the item and
   is suspended at await decrypt with the item and the passphrase it passed
   (line 186); resumed again, it assigns the vault, shows the main app and
   starts the timeout.  Timer callbacks and clicks run between the steps. *)

loginSubmit(password) ==
    /\ screen = "login"
    /\ Cardinality(suspended) < MaxSuspended
    /\ suspended' = suspended \cup
          {[id |-> FreshCallId, at |-> "hashPassword", password |-> password,
            encrypted |-> PartialBlob]}
    /\ UNCHANGED <<localStorage, masterPassword, passwords, categories,
                   sessionTimeout, isLocked, screen, timers, listeners, now,
                   entropy, thrown, calls, mindspace>>

(* hashPassword resolves: lines 131-137, and loadData up to its await *)
passwordHashed(s) ==
    /\ s.at = "hashPassword"
    /\ IF \/ ~hasItem(localStorage, "masterPasswordHash")
          \/ localStorage["masterPasswordHash"] # hashPassword(s.password)
       THEN /\ thrown' = IncorrectMsg
            /\ suspended' = suspended \ {s}
            /\ UNCHANGED <<masterPassword, isLocked, screen, sessionTimeout,
                           timers, listeners>>
       ELSE /\ masterPassword' = s.password
            /\ isLocked' = FALSE
            /\ IF hasItem(localStorage, "encryptedData")
               THEN /\ suspended' = (suspended \ {s}) \cup
                          {[s EXCEPT !.at = "decrypt",
                                     !.encrypted = localStorage["encryptedData"]]}
                    /\ UNCHANGED <<screen, sessionTimeout, timers, listeners,
                                   thrown>>
               ELSE /\ listeners < MaxListeners
                    /\ suspended' = suspended \ {s}
                    /\ screen' = "main"
                    /\ LET ts == startSessionTimeout(timerState, now)
                       IN /\ sessionTimeout' = ts.sessionTimeout
                          /\ timers' = ts.timers
                    /\ listeners' = listeners + 1
                    /\ thrown' = ""
    /\ UNCHANGED <<localStorage, passwords, categories, now, entropy, calls,
                   mindspace>>

(* decrypt resolves: loadData lines 187-188, login lines 138-139 *)
vaultDecrypted(s) ==
    /\ s.at = "decrypt"
    /\ suspended' = suspended \ {s}
    /\ LET r == decrypt(s.encrypted, s.password)
       IN IF r.ok
          THEN /\ listeners < MaxListeners
               /\ passwords' = IF "passwords" \in DOMAIN r.data
                               THEN r.data.passwords ELSE <<>>
               /\ categories' = IF "categories" \in DOMAIN r.data
                                THEN r.data.categories ELSE categories
               /\ screen' = "main"
               /\ LET ts == startSessionTimeout(timerState, now)
                  IN /\ sessionTimeout' = ts.sessionTimeout
                     /\ timers' = ts.timers
               /\ listeners' = listeners + 1
               /\ thrown' = ""
          ELSE /\ thrown' = DecryptionMsg
               /\ UNCHANGED <<passwords, categories, screen, sessionTimeout,
                              timers, listeners>>
    /\ UNCHANGED <<localStorage, masterPassword, isLocked, now, entropy, calls,
                   mindspace>>

NextLoginAwait ==
    \/ \E pw \in SetupInputs : setupMasterPassword(pw)
    \/ \E pd \in PasswordDataInputs : addPassword(pd)
    \/ lock
    \/ \E pw \in LoginInputs : loginSubmit(pw)
    \/ \E s \in suspended : passwordHashed(s)
    \/ \E s \in suspended : vaultDecrypted(s)
    \/ TimeoutFires
    \/ Activity
    \/ Ticks < MaxTicks /\ Tick(SESSION_MS)

SpecLoginAwait == Init /\ [][NextLoginAwait]_vars

----------------------------------------------------------------------------
(* The immersive view: SceneManager's render loop and the navigator's
   calls.  frames holds the handles of the requestAnimationFrame callbacks
   that are pending; every one of them is a render loop that is running. *)

MaxLoops == 3
MaxVisits == 3

getTotalScenes == Len(sceneConfigs)

(* requestAnimationFrame returns a handle that names no pending callback *)
FreshFrameId(pending) ==
    CHOOSE id \in 1..(Cardinality(pending) + 1) : id \notin pending

(* startRenderLoop: animate() is called at once and requests its next frame *)
startRenderLoop(rl) ==
    LET id == FreshFrameId(rl.frames)
    IN [animationFrameId |-> id, frames |-> rl.frames \cup {id}]

(* displayScene, its scene loaded: of the fields modelled it touches the
   render loop only *)
displayScene(rl) == startRenderLoop(rl)

stopRenderLoop(rl) ==
    IF rl.animationFrameId # NoFrame
    THEN [animationFrameId |-> NoFrame,
          frames |-> rl.frames \ {rl.animationFrameId}]
    ELSE rl

renderLoop == [animationFrameId |-> animationFrameId, frames |-> frames]

RECURSIVE SumCounts(_, _)
SumCounts(f, keys) ==
    IF keys = {} THEN 0
    ELSE LET k == CHOOSE x \in keys : TRUE
         IN f[k] + SumCounts(f, keys \ {k})

TotalVisits == SumCounts(storageData.visitCount, DOMAIN storageData.visitCount)

incrementVisitCount(counts, sceneId) ==
    [k \in DOMAIN counts \cup {sceneId} |->
        IF k = sceneId
        THEN (IF sceneId \in DOMAIN counts THEN counts[sceneId] ELSE 0) + 1
        ELSE counts[k]]

setLastVisited(sceneId) ==
    /\ storageData' = [storageData EXCEPT
                          !.lastVisited = sceneId,
                          !.visitCount = incrementVisitCount(@, sceneId)]
    /\ localStorage' = save(localStorage, storageData')

(* a scene card is clicked in the gallery *)
enterImmersiveMode(sceneIndex) ==
    /\ ~isImmersiveMode
    /\ Cardinality(frames) < MaxLoops
    /\ TotalVisits < MaxVisits
    /\ currentSceneIndex' = sceneIndex
    /\ LET rl == displayScene(renderLoop)
       IN /\ animationFrameId' = rl.animationFrameId
          /\ frames' = rl.frames
    /\ isImmersiveMode' = TRUE
    /\ setLastVisited(sceneConfigs[sceneIndex + 1])
    /\ UNCHANGED passwordManager

(* the back button or Escape *)
exitImmersiveMode ==
    /\ isImmersiveMode
    /\ LET rl == stopRenderLoop(renderLoop)
       IN /\ animationFrameId' = rl.animationFrameId
          /\ frames' = rl.frames
    /\ isImmersiveMode' = FALSE
    /\ UNCHANGED <<localStorage, storageData, currentSceneIndex,
                   passwordManager>>

(* the arrows of the immersive view *)
navigateToScene(direction) ==
    /\ isImmersiveMode
    /\ Cardinality(frames) < MaxLoops
    /\ TotalVisits < MaxVisits
    /\ currentSceneIndex' =
          IF direction = "next"
          THEN (currentSceneIndex + 1) % getTotalScenes
          ELSE IF direction = "prev"
               THEN (currentSceneIndex - 1 + getTotalScenes) % getTotalScenes
               ELSE currentSceneIndex
    /\ LET rl == displayScene(renderLoop)
       IN /\ animationFrameId' = rl.animationFrameId
          /\ frames' = rl.frames
    /\ setLastVisited(sceneConfigs[currentSceneIndex' + 1])
    /\ UNCHANGED <<isImmersiveMode, passwordManager>>

(* the browser runs a pending frame callback: animate requests the next one *)
animate(id) ==
    /\ id \in frames
    /\ LET rl == startRenderLoop([animationFrameId |-> animationFrameId,
                                  frames |-> frames \ {id}])
       IN /\ animationFrameId' = rl.animationFrameId
          /\ frames' = rl.frames
    /\ UNCHANGED <<localStorage, storageData, currentSceneIndex,
                   isImmersiveMode, passwordManager>>

DirectionInputs == {"next", "prev"}

NextImmersive ==
    \/ \E i \in 0..(getTotalScenes - 1) : enterImmersiveMode(i)
    \/ \E d \in DirectionInputs : navigateToScene(d)
    \/ exitImmersiveMode
    \/ \E id \in frames : animate(id)

SpecImmersive == Init /\ [][NextImmersive]_vars

----------------------------------------------------------------------------
(* What the claims speak of *)

Vault == [passwords |-> passwords, categories |-> categories]

(* the vault the encryptedData item opens to under passphrase pw *)
Persisted(pw) == decrypt(localStorage["encryptedData"], pw)

(* the plaintext vault inside the encryptedData item *)
PersistedVault == JSONparse(localStorage["encryptedData"].encrypted.plaintext)

LockStep == lock \/ TimeoutFires

----------------------------------------------------------------------------
(* C1: lock() followed by login(W) restores the records, in order, and the
   category set that were in memory just before lock().  In three parts: when
   lock() is called the encryptedData item opens under the master passphrase
   to exactly the vault in memory; no step taken on the login screen changes
   localStorage; a successful login(W) leaves in memory exactly the vault the
   item opens to under W. *)
C1_LockLoginRestoresVault ==
    [][ /\ lock =>
            /\ hasItem(localStorage, "encryptedData")
            /\ Persisted(masterPassword).ok
            /\ Persisted(masterPassword).data = Vault
        /\ (screen = "login" \/ screen' = "login") => localStorage' = localStorage
        /\ \A pw \in LoginInputs :
              (login(pw) /\ thrown' = "") =>
                  /\ Persisted(pw).ok
                  /\ Vault' = Persisted(pw).data
                  /\ masterPassword' = pw ]_vars

(* a session unlocked by login whose vault holds two different records and a
   category added in an earlier session *)
C1_Witness ==
    /\ screen = "main"
    /\ listeners >= 2
    /\ Len(passwords) = 2
    /\ passwords[1] # passwords[2]
    /\ includes(categories, "Games")
    /\ Persisted(masterPassword).data = Vault

(* C2: login with a passphrase whose hash differs from the stored one throws
   the authentication error and changes nothing: still locked, no passphrase
   and no records in memory, localStorage as it was, no timer started. *)
C2_WrongLoginChangesNothing ==
    [][ \A pw \in LoginInputs :
          (login(pw) /\ localStorage["masterPasswordHash"] # hashPassword(pw)) =>
              /\ thrown' = IncorrectMsg
              /\ isLocked /\ isLocked'
              /\ masterPassword' = Null
              /\ passwords' = <<>>
              /\ localStorage' = localStorage
              /\ sessionTimeout' = sessionTimeout
              /\ timers' = timers
              /\ listeners' = listeners ]_vars

(* a refused login against a stored vault *)
C2_Witness ==
    /\ thrown = IncorrectMsg
    /\ isLocked
    /\ hasItem(localStorage, "encryptedData")
    /\ Len(PersistedVault.passwords) > 0

(* C3: setupMasterPassword with fewer than 8 characters throws the
   weak-password error before any crypto or storage work: neither item is
   written and the session stays locked with no passphrase in memory. *)
C3_ShortSetupRejected ==
    [][ \A pw \in SetupInputs :
          (setupMasterPassword(pw) /\ Len(pw) < MinMasterLen) =>
              /\ thrown' = WeakPasswordMsg
              /\ ~hasItem(localStorage', "masterPasswordHash")
              /\ ~hasItem(localStorage', "encryptedData")
              /\ isLocked'
              /\ masterPassword' = Null
              /\ screen' = "setup" ]_vars

(* a rejected setup *)
C3_Witness ==
    /\ thrown = WeakPasswordMsg
    /\ DOMAIN localStorage = {}
    /\ isLocked

(* C4: in every persisted vault every record's category is a member of the
   persisted category set. *)
C4_PersistedCategoriesKnown ==
    hasItem(localStorage, "encryptedData") =>
        \A i \in DOMAIN PersistedVault.passwords :
            includes(PersistedVault.categories,
                     PersistedVault.passwords[i]["category"])

(* C5: 'Other' is a member of the category set in every reachable state. *)
C5_FallbackAlwaysPresent == includes(categories, "Other")

(* C6: deleteCategory(C) leaves every record that was in C in 'Other', the
   other records as they were, C out of the category set, and the result in
   the encryptedData item. *)
C6_DeleteCategoryReassigns ==
    [][ \A c \in DeleteCategoryInputs :
          deleteCategory(c) =>
              /\ Len(passwords') = Len(passwords)
              /\ \A i \in DOMAIN passwords :
                    IF passwords[i]["category"] = c
                    THEN passwords'[i] = [passwords[i] EXCEPT !["category"] = "Other"]
                    ELSE passwords'[i] = passwords[i]
              /\ ~includes(categories', c)
              /\ Persisted(masterPassword)'.ok
              /\ Persisted(masterPassword)'.data = Vault' ]_vars

(* the record filed under Work sits in Other, Work is gone, and that is what
   the stored item holds *)
C6_Witness ==
    /\ screen = "main"
    /\ ~includes(categories, "Work")
    /\ \E i \in DOMAIN passwords :
          passwords[i]["name"] = "Bank" /\ passwords[i]["category"] = "Other"
    /\ PersistedVault = Vault

(* C7: right after lock(), from the lock button or the idle timer, the
   session is locked, the passphrase in memory is null and the record list is
   empty. *)
C7_LockDiscardsVault ==
    [][ LockStep =>
          /\ isLocked'
          /\ masterPassword' = Null
          /\ passwords' = <<>> ]_vars

(* locked on the login screen while the stored vault holds records *)
C7_Witness ==
    /\ isLocked
    /\ screen = "login"
    /\ masterPassword = Null
    /\ passwords = <<>>
    /\ Len(PersistedVault.passwords) > 0

(* C8: while the session is locked the category set in memory is the default
   seed set. *)
C8_LockDiscardsCategories == isLocked => categories = DefaultCategories

(* C9: while the session is locked no session timeout is pending. *)
C9_NoTimerWhileLocked ==
    isLocked => (sessionTimeout = NoTimer /\ timers = {})

(* C10: at most one session timeout is pending, the one this.sessionTimeout
   names, and an activity event leaves exactly one, due a full interval after
   the event. *)
C10_CancelAndRestart ==
    [][ /\ Cardinality(timers') <= 1
        /\ \A t \in timers' : t.id = sessionTimeout'
        /\ Activity =>
              \E t \in timers' :
                  /\ timers' = {t}
                  /\ t.due = now + SESSION_MS ]_vars

(* two resetTimeout closures are registered and have run on an activity event
   in a locked session: one timeout is pending *)
C10_Witness ==
    /\ isLocked
    /\ listeners = 2
    /\ Cardinality(timers) = 1
    /\ \E t \in timers : t.due = now + SESSION_MS /\ now > 0

----------------------------------------------------------------------------
(* C11: an unlocked session left without activity events is locked by the
   idle timeout, and the vault is then gone from memory. *)
C11_IdleTimeoutLocks ==
    (~isLocked) ~> (isLocked /\ masterPassword = Null /\ passwords = <<>>)

(* the idle timeout has run: locked on the login screen, a full interval on
   the clock, no timeout pending, records in the stored vault *)
C11_Witness ==
    /\ isLocked
    /\ screen = "login"
    /\ now >= SESSION_MS
    /\ timers = {}
    /\ passwords = <<>>
    /\ Len(PersistedVault.passwords) > 0

(* the encryptedData item is an encryption of the vault in memory under the
   master passphrase *)
VaultStored ==
    /\ hasItem(localStorage, "encryptedData")
    /\ Persisted(masterPassword).ok
    /\ Persisted(masterPassword).data = Vault

Ids(pws) == { pws[i]["id"] : i \in DOMAIN pws }

(* C12: no two records of the vault have the same id. *)
C12_IdsUnique ==
    \A i, j \in DOMAIN passwords :
        i # j => passwords[i]["id"] # passwords[j]["id"]

(* C13: no updatePassword call changes the id or the createdDate of a
   record. *)
C13_UpdateKeepsIdentity ==
    [][ (\E id \in IdInputs, u \in AnyUpdateInputs : updatePassword(id, u)) =>
          \A i \in DOMAIN passwords :
              /\ passwords'[i]["id"] = passwords[i]["id"]
              /\ passwords'[i]["createdDate"] = passwords[i]["createdDate"] ]_vars

(* C14: an operation that changes a field of an existing record stamps that
   record's lastModified with the time of the operation. *)
C14_MutationStampsLastModified ==
    [][ Len(passwords') = Len(passwords) =>
          \A i \in DOMAIN passwords :
              passwords'[i] # passwords[i] =>
                  passwords'[i]["lastModified"] = toISOString(now) ]_vars

(* C15: addPassword makes a record with the id and timestamps of the call
   (category 'Other' when none is given), puts it in front of the records
   that were there, in their order, and stores the whole vault. *)
C15_AddPasswordInsertsFront ==
    [][ \A pd \in PasswordDataInputs :
          addPassword(pd) =>
              /\ Len(passwords') = Len(passwords) + 1
              /\ passwords'[1]["id"] = ToString(now)
              /\ passwords'[1]["createdDate"] = toISOString(now)
              /\ passwords'[1]["lastModified"] = toISOString(now)
              /\ passwords'[1]["name"] = pd.name
              /\ passwords'[1]["password"] = pd.password
              /\ passwords'[1]["category"] =
                    (IF "category" \in DOMAIN pd THEN pd.category ELSE "Other")
              /\ \A i \in DOMAIN passwords : passwords'[i + 1] = passwords[i]
              /\ categories' = categories
              /\ VaultStored'
              /\ thrown' = "" ]_vars

(* the record made without a category sits in 'Other' in front of an older
   record, and the stored vault holds both *)
C15_Witness ==
    /\ Len(passwords) = 2
    /\ passwords[1]["name"] = "Example"
    /\ passwords[1]["category"] = "Other"
    /\ passwords[1]["id"] = "1"
    /\ passwords[2]["id"] = "0"
    /\ VaultStored

(* C16: updatePassword with an id no record has raises nothing, leaves the
   records, the categories and localStorage as they were; with an id a record
   has, it merges the fields into one record with that id, leaves every other
   record as it was and stores the vault. *)
C16_UpdateMissingIsNoOp ==
    [][ \A id \in IdInputs, u \in UpdateInputs :
          updatePassword(id, u) =>
              /\ thrown' = ""
              /\ categories' = categories
              /\ IF id \notin Ids(passwords)
                 THEN /\ passwords' = passwords
                      /\ localStorage' = localStorage
                 ELSE /\ Len(passwords') = Len(passwords)
                      /\ \E k \in DOMAIN passwords :
                            /\ passwords[k]["id"] = id
                            /\ \A i \in DOMAIN passwords \ {k} :
                                  passwords'[i] = passwords[i]
                            /\ \A f \in DOMAIN u : passwords'[k][f] = u[f]
                            /\ \A f \in Fields \ (DOMAIN u \cup {"lastModified"}) :
                                  passwords'[k][f] = passwords[k][f]
                            /\ passwords'[k]["lastModified"] = toISOString(now)
                      /\ VaultStored' ]_vars

(* the older of two records has the merged fields and the time of the update,
   the newer one is as addPassword made it, and the stored vault holds both *)
C16_Witness ==
    /\ Len(passwords) = 2
    /\ passwords[2]["id"] = "0"
    /\ passwords[2]["password"] = "n3w"
    /\ passwords[2]["category"] = "Games"
    /\ passwords[2]["createdDate"] = "T0"
    /\ passwords[2]["lastModified"] = "T1"
    /\ passwords[1]["id"] = "1"
    /\ passwords[1]["lastModified"] = "T1"
    /\ passwords[1]["password"] # "n3w"
    /\ VaultStored

(* C17: deletePassword(id) leaves exactly the records with another id, in
   their order; when no record has the id (as at a second call in a row) the
   list is unchanged; it raises nothing and the stored vault is the vault in
   memory afterwards. *)
C17_DeletePasswordIdempotent ==
    [][ \A id \in IdInputs :
          deletePassword(id) =>
              /\ passwords' = SelectSeq(passwords, LAMBDA p : p["id"] # id)
              /\ id \notin Ids(passwords')
              /\ (id \notin Ids(passwords) => passwords' = passwords)
              /\ categories' = categories
              /\ thrown' = ""
              /\ VaultStored' ]_vars

(* of the records made at times 0 and 1 only the later one is left, in memory
   and in storage, and '0' is still an id a caller can pass *)
C17_Witness ==
    /\ Len(passwords) = 1
    /\ passwords[1]["id"] = "1"
    /\ "0" \in IdInputs
    /\ "0" \notin Ids(passwords)
    /\ VaultStored

(* C18: addCategory(name) appends name and stores the vault when the name is
   not among the categories, changes neither the categories nor localStorage
   when it is; the categories never hold a name twice. *)
C18_AddCategoryNoDuplicate ==
    /\ [][ \A c \in AddCategoryInputs :
             addCategory(c) =>
                 /\ IF c \in Range(categories)
                    THEN /\ categories' = categories
                         /\ localStorage' = localStorage
                    ELSE /\ categories' = Append(categories, c)
                         /\ VaultStored'
                 /\ passwords' = passwords
                 /\ thrown' = "" ]_vars
    /\ [](\A i, j \in DOMAIN categories :
             i # j => categories[i] # categories[j])

(* the new name is the last category, in memory and in storage *)
C18_Witness ==
    /\ categories[Len(categories)] = "Games"
    /\ Len(categories) = 7
    /\ VaultStored

(* two characters that differ at most in case *)
SameLetter(a, b) ==
    \/ a = b
    \/ a \in DOMAIN LowerCaseOf /\ LowerCaseOf[a] = b
    \/ b \in DOMAIN LowerCaseOf /\ LowerCaseOf[b] = a

(* q occurs in s, case aside *)
OccursIn(q, s) ==
    \E i \in 0..(Len(s) - Len(q)) :
        \A k \in 1..Len(q) :
            SameLetter(SubSeq(s, i + k, i + k), SubSeq(q, k, k))

SearchMatch(p, query, category) ==
    /\ category \in {Null, "", "All"} \/ p["category"] = category
    /\ \/ query = ""
       \/ \E f \in {"name", "website", "username", "category"} :
             OccursIn(query, p[f])

(* C19: searchPasswords(query, categoryFilter) returns, in the order of the
   vault, exactly the records whose category is the filter (any category when
   the filter is 'All' or absent) and which hold the query, case aside, in
   name, website, username or category (every record when the query is
   empty). *)
C19_SearchReturnsMatches ==
    \A query \in QueryInputs, category \in CategoryInputs :
        LET r == searchPasswords(passwords, query, category)
        IN /\ ~r.threw
           /\ r.results = SelectSeq(passwords,
                              LAMBDA p : SearchMatch(p, query, category))

(* a vault where 'bank' under 'All' finds the one record with 'MyBank.com'
   as website, and 'EXAMPLE' with no filter finds the other *)
C19_Witness ==
    /\ Len(passwords) = 2
    /\ passwords[1]["name"] = "Savings"
    /\ passwords[2]["name"] = "Example"
    /\ searchPasswords(passwords, "bank", "All").results = <<passwords[1]>>
    /\ searchPasswords(passwords, "EXAMPLE", Null).results = <<passwords[2]>>
    /\ searchPasswords(passwords, "", "Work").results = <<>>

(* C20: once masterPasswordHash is stored, no operation of the session
   (login, lock, addPassword, addCategory, a further setupMasterPassword)
   changes its value or replaces a stored vault that has records by one that
   has none. *)
C20_VerifierCreatedOnce ==
    [][ hasItem(localStorage, "masterPasswordHash") =>
          /\ hasItem(localStorage', "masterPasswordHash")
          /\ localStorage'["masterPasswordHash"] = localStorage["masterPasswordHash"]
          /\ PersistedVault.passwords # <<>> => PersistedVault'.passwords # <<>> ]_vars

(* a blob as encrypt returns it: salt, iv and a ciphertext that opens under
   one of the passphrases *)
CompleteBlob(blob) ==
    /\ DOMAIN blob = {"salt", "iv", "encrypted"}
    /\ \E pw \in SetupInputs \cup LoginInputs : decrypt(blob, pw).ok

(* C21: when the encryption inside saveData fails, the encryptedData item is
   what it was before the call (present or absent), the error reaches the
   caller, and at no time does the item hold anything but a complete blob. *)
C21_FailedPersistKeepsBlob ==
    /\ [][ (\/ \E pd \in PasswordDataInputs : addPasswordEncryptThrows(pd)
            \/ \E id \in IdInputs : deletePasswordEncryptThrows(id)) =>
              /\ localStorage' = localStorage
              /\ thrown' = RangeErrorMsg ]_vars
    /\ [](hasItem(localStorage, "encryptedData") =>
             CompleteBlob(localStorage["encryptedData"]))

(* after a failed save the vault in memory has a record more than the stored
   one, which still opens under the master passphrase *)
C21_Witness ==
    /\ thrown = RangeErrorMsg
    /\ hasItem(localStorage, "encryptedData")
    /\ Persisted(masterPassword).ok
    /\ Len(passwords) = 2
    /\ Len(PersistedVault.passwords) = 1
    /\ PersistedVault.passwords[1] = passwords[2]

C26_FavouritesPersist ==
    /\ hasItem(localStorage, STORAGE_KEY) =>
          parseData(localStorage[STORAGE_KEY]) = storageData
    /\ load(localStorage).favorites = storageData.favorites
    /\ \A i, j \in DOMAIN storageData.favorites :
          i # j => storageData.favorites[i] # storageData.favorites[j]

(* two favourites, stored in the order they were added, the first added one
   having been removed again before *)
C26_Witness ==
    /\ storageData.favorites = <<"laboratory", "office-kitchen">>
    /\ hasItem(localStorage, STORAGE_KEY)
    /\ load(localStorage).favorites = <<"laboratory", "office-kitchen">>

(* C27: a login whose passphrase passes the hash check while the stored blob
   does not decrypt throws the decryption error and leaves the session
   locked, with no passphrase in memory and no session timeout. *)
C27_UnlockOnlyAfterDecrypt ==
    [][ \A pw \in LoginInputs :
          (/\ login(pw)
           /\ hasItem(localStorage, "masterPasswordHash")
           /\ localStorage["masterPasswordHash"] = hashPassword(pw)
           /\ hasItem(localStorage, "encryptedData")
           /\ ~decrypt(localStorage["encryptedData"], pw).ok) =>
              /\ thrown' = DecryptionMsg
              /\ isLocked'
              /\ masterPassword' = Null
              /\ sessionTimeout' = NoTimer
              /\ timers' = {} ]_vars

(* C28: when every vault mutation that was started has resolved, the
   encryptedData item decrypts to the records and categories in memory. *)
C28_NoLostUpdate ==
    (suspended = {} /\ screen = "main") => VaultStored

(* C29: in every reachable state, while the session is locked the record
   list is empty and no passphrase is in memory. *)
C29_LockedHoldsNothing ==
    isLocked => (passwords = <<>> /\ masterPassword = Null)

(* C30: at most one render loop is running at any time, and none is running
   when the immersive view has been left. *)
C30_OneRenderLoop ==
    /\ Cardinality(frames) <= 1
    /\ ~isImmersiveMode => frames = {}

====
